---------------------------- MODULE Spec2Model ----------------------------
(***************************************************************************)
(* A model of src/remark/mod.rs of cargo-remark: the per-document record   *)
(* decoder (parse_remarks), the message composer (construct_message), the  *)
(* symbol demangler (demangle) and the path normalizer (normalize_path).   *)
(*                                                                         *)
(* Rust strings that the code inspects character by character (paths,      *)
(* function names, message texts, map keys) are sequences of one-character *)
(* strings; <<>> is the empty string.  Strings the code only compares or   *)
(* copies (Pass, Name) are TLA+ strings.  Option<T> is a record            *)
(* [some |-> FALSE] or [some |-> TRUE, val |-> v].                         *)
(***************************************************************************)
EXTENDS Integers, Sequences, FiniteSets, TLC

VARIABLES
    pc,          \* position of the operation the specification runs
    options,     \* RemarkLoadOptions
    fs,          \* the regular files that exist on disk (absolute paths)
    docs,        \* parse_remarks: the documents read from the stream so far
    remarks,     \* parse_remarks: the `remarks` vector
    arguments,   \* construct_message: the argument list
    idx,         \* construct_message: number of arguments consumed by the loop
    buffer,      \* construct_message: the `buffer` string
    parts,       \* construct_message: the `parts` vector
    function,    \* demangle: the identifier passed in
    demangled,   \* demangle: the successive results of applying demangle
    path,        \* normalize_path: the path passed in
    normalized,  \* normalize_path: the returned string
    dirState,    \* load_remarks_from_dir: whether the directory can be found and read
    dirEntries,  \* load_remarks_from_dir: the entries read_dir yields
    callback,    \* load_remarks_from_dir: whether a LoadCallback is passed
    files,       \* load_remarks_from_dir: the `files` vector
    phase,       \* per file: "pending", "loaded" (load returned), "advanced"
    slots,       \* per file: the result its closure returns, once it has one
    completed,   \* the positions of the files in the order their loads finished
    loads,       \* per file: how many times load_remarks_from_file ran on it
    log,         \* the calls made on the callback, in order
    output       \* load_remarks_from_dir: the returned Result, once returned

loadVars == <<dirState, dirEntries, callback, files, phase, slots, completed,
              loads, log, output>>

vars == <<pc, options, fs, docs, remarks, arguments, idx, buffer, parts,
          function, demangled, path, normalized, loadVars>>

---------------------------------------------------------------------------
(* Bounds of the model. *)

\* documents read from one stream
MaxDocs == 2
\* arguments of one remark
MaxArgs == 3
\* trailing segments appended to a demangle input
MaxSuffixes == 2
\* characters of the remainder of a normalize_path input
MaxRemainderLen == 3
\* entries of the remark directory
MaxEntries == 3

---------------------------------------------------------------------------
(* Options and strings. *)

None == [some |-> FALSE]
Some(v) == [some |-> TRUE, val |-> v]

\* The characters of the model in their byte order (the order of str's Ord).
CharOrder ==
    <<"\n", " ", "$", ".", "/",
      "0", "1", "2", "3", "4", "5", "6", "7", "8", "9", ":",
      "A", "B", "C", "D", "E", "F", "G", "H", "I", "J", "K", "L", "M",
      "N", "O", "P", "Q", "R", "S", "T", "U", "V", "W", "X", "Y", "Z",
      "\\", "_",
      "a", "b", "c", "d", "e", "f", "g", "h", "i", "j", "k", "l", "m",
      "n", "o", "p", "q", "r", "s", "t", "u", "v", "w", "x", "y", "z">>

CharRank(c) == CHOOSE i \in 1..Len(CharOrder) : CharOrder[i] = c

\* a < b for two strings: the lexicographic byte order of Ord for str.
RECURSIVE StrLess(_, _)
StrLess(a, b) ==
    IF b = <<>> THEN FALSE
    ELSE IF a = <<>> THEN TRUE
    ELSE IF Head(a) = Head(b) THEN StrLess(Tail(a), Tail(b))
    ELSE CharRank(Head(a)) < CharRank(Head(b))

\* str::starts_with / str::strip_prefix's test
StartsWith(s, prefix) ==
    /\ Len(s) >= Len(prefix)
    /\ SubSeq(s, 1, Len(prefix)) = prefix

\* s[n..] with a 0-based byte offset n
From(s, n) == SubSeq(s, n + 1, Len(s))

\* str::find(c): the 0-based offset of the first c, as an Option
Find(s, c) ==
    IF \E i \in 1..Len(s) : s[i] = c
    THEN Some((CHOOSE i \in 1..Len(s) :
                  s[i] = c /\ \A j \in 1..(i - 1) : s[j] # c) - 1)
    ELSE None

\* str::replace(from, to) for single characters
Replace(s, from, to) == [i \in 1..Len(s) |-> IF s[i] = from THEN to ELSE s[i]]

\* PathBuf::join on Unix: an absolute argument replaces the base, otherwise
\* the argument is appended after a separator the base does not already end in.
PathJoin(base, p) ==
    IF StartsWith(p, <<"/">>) THEN p
    ELSE IF base = <<>> THEN p
    ELSE IF base[Len(base)] = "/" THEN base \o p
    ELSE base \o <<"/">> \o p

\* Path::is_file: the path names an existing regular file.
IsFile(fsys, p) == p \in fsys

\* The decimal text of a natural number (u32 / Number to_string).
RECURSIVE Decimal(_)
Decimal(n) ==
    LET digit == <<"0", "1", "2", "3", "4", "5", "6", "7", "8", "9">>[(n % 10) + 1]
    IN  IF n < 10 THEN <<digit>> ELSE Append(Decimal(n \div 10), digit)

---------------------------------------------------------------------------
(* rustc_demangle::demangle(function).to_string(), the base transform of    *)
(* demangle.  The crate is a dependency; modelled here is its legacy        *)
(* ("_ZN ... E") scheme for identifiers without '$' and '.' escapes and     *)
(* without a trailing ".llvm." suffix; every other string is not mangled    *)
(* and is displayed as it is.                                               *)

Digits == {"0", "1", "2", "3", "4", "5", "6", "7", "8", "9"}

DigitValue(c) == CharRank(c) - CharRank("0")

\* The value of a run of decimal digits.
RECURSIVE DecimalValue(_)
DecimalValue(ds) ==
    IF ds = <<>> THEN 0
    ELSE 10 * DecimalValue(SubSeq(ds, 1, Len(ds) - 1)) + DigitValue(ds[Len(ds)])

\* The length-prefixed elements of the text after "_ZN", read from position i,
\* up to the closing 'E': Some([elements, rest]) or None when malformed.
RECURSIVE ParseLegacy(_, _, _)
ParseLegacy(s, i, acc) ==
    IF i > Len(s) THEN None
    ELSE IF s[i] = "E" THEN Some([elements |-> acc, rest |-> From(s, i)])
    ELSE IF s[i] \notin Digits THEN None
    ELSE IF \A k \in i..Len(s) : s[k] \in Digits THEN None
    ELSE LET j == CHOOSE k \in i..Len(s) :
                      /\ s[k] \notin Digits
                      /\ \A m \in i..(k - 1) : s[m] \in Digits
             len == DecimalValue(SubSeq(s, i, j - 1))
         IN  IF j + len > Len(s) THEN None
             ELSE ParseLegacy(s, j + len, Append(acc, SubSeq(s, j, j + len - 1)))

\* The elements written with "::" between them.
RECURSIVE JoinElements(_)
JoinElements(elements) ==
    IF elements = <<>> THEN <<>>
    ELSE IF Len(elements) = 1 THEN elements[1]
    ELSE elements[1] \o <<":", ":">> \o JoinElements(Tail(elements))

RustcDemangle(s) ==
    LET inner == IF StartsWith(s, <<"_", "Z", "N">>) THEN Some(From(s, 3))
                 ELSE IF StartsWith(s, <<"Z", "N">>) THEN Some(From(s, 2))
                 ELSE IF StartsWith(s, <<"_", "_", "Z", "N">>) THEN Some(From(s, 4))
                 ELSE None
    IN  IF ~inner.some THEN s
        ELSE LET parsed == ParseLegacy(inner.val, 1, <<>>)
             IN  IF parsed.some /\ parsed.val.rest = <<>>
                 THEN JoinElements(parsed.val.elements)
                 ELSE s

---------------------------------------------------------------------------
(* demangle *)

LowerAlnum ==
    {"a", "b", "c", "d", "e", "f", "g", "h", "i", "j", "k", "l", "m",
     "n", "o", "p", "q", "r", "s", "t", "u", "v", "w", "x", "y", "z",
     "0", "1", "2", "3", "4", "5", "6", "7", "8", "9"}

\* the repetition count of the character class in HASH_REGEX
HashLen == 17
\* the number of bytes demangle drains from the end
DrainLen == 19

\* Faulty variant of HashRegexFind: the pattern without its `$` anchor.
HashRegexFindUnanchored(s) ==
    \E j \in 1..Len(s) :
        /\ j + 1 + HashLen <= Len(s)
        /\ s[j] = ":" /\ s[j + 1] = ":"
        /\ \A k \in (j + 2)..(j + 1 + HashLen) : s[k] \in LowerAlnum

\* Faulty variant of HashRegexFind: the class repeated one time less.
HashRegexFindShort(s) ==
    \E j \in 1..Len(s) :
        /\ j + HashLen = Len(s)
        /\ s[j] = ":" /\ s[j + 1] = ":"
        /\ \A k \in (j + 2)..(j + HashLen) : s[k] \in LowerAlnum

\* regex.find(s).is_some() for the pattern .*::[a-z0-9]{17}$ : a match starts at
\* some i, `.*` takes s[i..j) (no line feed), "::" is at j, the class matches the
\* next HashLen characters, and `$` is the end of the text.
HashRegexFind(s) ==
    \E i \in 1..(Len(s) + 1) : \E j \in i..Len(s) :
        /\ \A k \in i..(j - 1) : s[k] # "\n"
        /\ j + 1 + HashLen = Len(s)
        /\ s[j] = ":" /\ s[j + 1] = ":"
        /\ \A k \in (j + 2)..(j + 1 + HashLen) : s[k] \in LowerAlnum

Demangle(f) ==
    LET base == RustcDemangle(f)
    IN  IF HashRegexFind(base)
        THEN SubSeq(base, 1, Len(base) - DrainLen)
        ELSE base

---------------------------------------------------------------------------
(* normalize_path and parse_debug_loc *)

RUSTC_PREFIX == <<"/", "r", "u", "s", "t", "c", "/">>

NormalizePath(opts, p) ==
    IF opts.rustc_source_root.some /\ StartsWith(p, RUSTC_PREFIX)
    THEN LET rest == From(p, Len(RUSTC_PREFIX))
             index == Find(rest, "/")
         IN  IF index.some
             THEN Replace(PathJoin(opts.rustc_source_root.val,
                                   From(rest, index.val + 1)), "\\", "/")
             ELSE p
    ELSE p

ParseDebugLoc(opts, location) ==
    [file |-> NormalizePath(opts, location.file),
     line |-> location.line,
     column |-> location.column]

---------------------------------------------------------------------------
(* construct_message *)

(* A RemarkArg is one of                                                    *)
(*   [kind |-> "String", string]          [kind |-> "Reason", reason]       *)
(*   [kind |-> "Callee", callee, debug_loc]                                 *)
(*   [kind |-> "Caller", caller, debug_loc]                                 *)
(*   [kind |-> "Other", map]                                                *)
(* where debug_loc is an Option of [file, line, column] and map is given by *)
(* its entries [key, value] in the order the document lists them.  A Value  *)
(* is [kind |-> "String", s], [kind |-> "Number", n], [kind |-> "Bool", b], *)
(* [kind |-> "Null"], [kind |-> "Location", file, line, column] (a mapping  *)
(* holding File, Line and Column) or [kind |-> "Mapping"] (any other one).  *)
(* A MessagePart is [kind |-> "String", text] or                            *)
(* [kind |-> "AnnotatedString", message, location].                         *)

DEBUG_LOC == <<"D", "e", "b", "u", "g", "L", "o", "c">>

PlainPart(text) == [kind |-> "String", text |-> text]

AnnotatedPart(message, location) ==
    [kind |-> "AnnotatedString", message |-> message, location |-> location]

\* parse::DebugLocation::deserialize(value).ok()
DeserializeDebugLoc(value) ==
    IF value.kind = "Location"
    THEN Some([file |-> value.file, line |-> value.line, column |-> value.column])
    ELSE None

\* BTreeMap::remove(key): the removed value, if the key is present
MapGet(map, key) ==
    IF \E i \in 1..Len(map) : map[i].key = key
    THEN Some(map[CHOOSE i \in 1..Len(map) : map[i].key = key].value)
    ELSE None

\* BTreeMap::remove(key): the map that is left
MapWithout(map, key) == SelectSeq(map, LAMBDA e : e.key # key)

\* Faulty variant of IntoValues: the values in the order the document lists them.
IntoValuesDocumentOrder(map) == [i \in 1..Len(map) |-> map[i].value]

\* BTreeMap::into_values: the values in ascending order of their keys.
RECURSIVE IntoValues(_)
IntoValues(map) ==
    IF map = <<>> THEN <<>>
    ELSE LET least == CHOOSE i \in 1..Len(map) :
                          \A j \in 1..Len(map) : j = i \/ StrLess(map[i].key, map[j].key)
         IN  <<map[least].value>>
                 \o IntoValues(SelectSeq(map, LAMBDA e : e.key # map[least].key))

\* the filter_map closure of aggregate_keys
ValueText(v) ==
    CASE v.kind = "Bool" ->
             Some(IF v.b THEN <<"t", "r", "u", "e">> ELSE <<"f", "a", "l", "s", "e">>)
      [] v.kind = "Number" -> Some(Decimal(v.n))
      [] v.kind = "String" -> Some(v.s)
      [] OTHER -> None

RECURSIVE ExtendWithValues(_, _)
ExtendWithValues(buf, values) ==
    IF values = <<>> THEN buf
    ELSE LET text == ValueText(Head(values))
         IN  ExtendWithValues(IF text.some THEN buf \o text.val ELSE buf, Tail(values))

AggregateKeys(buf, map) == ExtendWithValues(buf, IntoValues(map))

\* Faulty variant of AddAnnotated: the buffer is pushed but not taken.
AddAnnotatedKeepBuffer(part, st) ==
    IF st.buffer # <<>>
    THEN [buffer |-> st.buffer,
          parts |-> Append(Append(st.parts, PlainPart(st.buffer)), part)]
    ELSE [buffer |-> st.buffer, parts |-> Append(st.parts, part)]

\* The add_annotated closure on the state st = [buffer, parts].
AddAnnotated(part, st) ==
    IF st.buffer # <<>>
    THEN [buffer |-> <<>>,
          parts |-> Append(Append(st.parts, PlainPart(st.buffer)), part)]
    ELSE [buffer |-> st.buffer, parts |-> Append(st.parts, part)]

\* Faulty variant of FunctionArg: the name is annotated whether or not it is located.
FunctionArgAlwaysAnnotated(opts, st, name, debug_loc) ==
    AddAnnotated(AnnotatedPart(Demangle(name),
                     IF debug_loc.some THEN ParseDebugLoc(opts, debug_loc.val)
                     ELSE [file |-> <<>>, line |-> 0, column |-> 0]), st)

\* The two arms of the match for Callee and Caller: with a debug_loc the
\* demangled name is annotated, without one it is pushed to the buffer.
FunctionArg(opts, st, name, debug_loc) ==
    IF debug_loc.some
    THEN AddAnnotated(AnnotatedPart(Demangle(name),
                          ParseDebugLoc(opts, debug_loc.val)), st)
    ELSE [st EXCEPT !.buffer = @ \o Demangle(name)]

\* The arm of the match for Other.
OtherArg(opts, st, map) ==
    LET removed == MapGet(map, DEBUG_LOC)
        inner == MapWithout(map, DEBUG_LOC)
        location == IF removed.some THEN DeserializeDebugLoc(removed.val) ELSE None
    IN  IF location.some
        THEN AddAnnotated(AnnotatedPart(AggregateKeys(<<>>, inner),
                              ParseDebugLoc(opts, location.val)), st)
        ELSE [st EXCEPT !.buffer = AggregateKeys(@, inner)]

\* One iteration of the loop over the arguments: the match on arg.
ArgStep(opts, st, arg) ==
    CASE arg.kind = "String" -> [st EXCEPT !.buffer = @ \o arg.string]
      [] arg.kind = "Callee" -> FunctionArg(opts, st, arg.callee, arg.debug_loc)
      [] arg.kind = "Caller" -> FunctionArg(opts, st, arg.caller, arg.debug_loc)
      [] arg.kind = "Reason" -> [st EXCEPT !.buffer = @ \o arg.reason]
      [] arg.kind = "Other" -> OtherArg(opts, st, arg.map)

\* The push of the remaining buffer after the loop.
FinalParts(st) ==
    IF st.buffer # <<>> THEN Append(st.parts, PlainPart(st.buffer)) ELSE st.parts

RECURSIVE ArgLoop(_, _, _)
ArgLoop(opts, st, args) ==
    IF args = <<>> THEN st ELSE ArgLoop(opts, ArgStep(opts, st, Head(args)), Tail(args))

ConstructMessage(opts, args) ==
    FinalParts(ArgLoop(opts, [buffer |-> <<>>, parts |-> <<>>], args))

---------------------------------------------------------------------------
(* parse_remarks *)

(* A document is the outcome of parse::Remark::deserialize on one document  *)
(* of the stream: tag is "Missed", "Passed" or "Analysis" for a decoded     *)
(* document and "Err" for one that failed to decode.  Every document        *)
(* carries the fields written in it, [pass, name, function, debug_loc,      *)
(* args, hotness]; the code binds them for a Missed document only.          *)

\* Faulty variant of RejectedAsExternal: the is_file test is left out.
RejectedAsExternalAbsoluteOnly(opts, fsys, location) ==
    /\ ~opts.external
    /\ StartsWith(location.file, <<"/">>)

\* The two `continue`s under `if !options.external`.
RejectedAsExternal(opts, fsys, location) ==
    /\ ~opts.external
    /\ \/ StartsWith(location.file, <<"/">>)
       \/ ~IsFile(fsys, PathJoin(opts.source_dir, location.file))

\* Faulty variant of FilteredKind: only the first filter is compared.
FilteredKindFirstOnly(opts, name) ==
    /\ opts.filter_kind # <<>>
    /\ opts.filter_kind[1] = name

\* options.filter_kind.iter().any(|filter| filter == name)
FilteredKind(opts, name) ==
    \E i \in 1..Len(opts.filter_kind) : opts.filter_kind[i] = name

\* Faulty variant of MakeRemark: pass and name are exchanged.
MakeRemarkSwapped(opts, doc) ==
    [pass |-> doc.name,
     name |-> doc.pass,
     function |-> [name |-> Demangle(doc.function),
                   location |-> Some(ParseDebugLoc(opts, doc.debug_loc.val))],
     message |-> ConstructMessage(opts, doc.args),
     hotness |-> doc.hotness]

\* The Remark built from a Missed document that has a debug_loc.
MakeRemark(opts, doc) ==
    [pass |-> doc.pass,
     name |-> doc.name,
     function |-> [name |-> Demangle(doc.function),
                   location |-> Some(ParseDebugLoc(opts, doc.debug_loc.val))],
     message |-> ConstructMessage(opts, doc.args),
     hotness |-> doc.hotness]

\* Faulty variant of ParseDocument: a Passed document is handled like a Missed one.
ParseDocumentAnyTag(opts, fsys, rs, doc) ==
    IF doc.tag \in {"Missed", "Passed"} /\ doc.debug_loc.some
    THEN IF RejectedAsExternal(opts, fsys, doc.debug_loc.val) THEN rs
         ELSE IF FilteredKind(opts, doc.name) THEN rs
         ELSE Append(rs, MakeRemark(opts, doc))
    ELSE rs

\* The body of the loop over the documents: the `remarks` vector after doc.
ParseDocument(opts, fsys, rs, doc) ==
    IF doc.tag = "Err" THEN rs
    ELSE IF doc.tag = "Missed"
    THEN IF doc.debug_loc.some
         THEN IF RejectedAsExternal(opts, fsys, doc.debug_loc.val) THEN rs
              ELSE IF FilteredKind(opts, doc.name) THEN rs
              ELSE Append(rs, MakeRemark(opts, doc))
         ELSE rs
    ELSE rs

---------------------------------------------------------------------------
(* The inputs the specifications draw from. *)

\* All sequences over S of length at most n.
SeqsUpTo(S, n) == UNION {[1..k -> S] : k \in 0..n}

RECURSIVE Concat(_)
Concat(ss) == IF ss = <<>> THEN <<>> ELSE Head(ss) \o Concat(Tail(ss))

SOURCE_DIR == <<"/", "t", "m", "p">>
TOOLCHAIN_ROOT == <<"/", "f", "o", "o", "/", "b", "a", "r">>

\* h9096f6f84fb08eb2, the hash of tests::parse_multiple
HASH == <<"h", "9", "0", "9", "6", "f", "6", "f", "8", "4", "f", "b", "0", "8", "e", "b", "2">>

\* _ZN1a17h9096f6f84fb08eb2E
MANGLED_A ==
    <<"_", "Z", "N", "1", "a", "1", "7">> \o HASH \o <<"E">>

\* _ZN1a17bbbbbbbbbbbbbbbbb17h9096f6f84fb08eb2E
MANGLED_A_B ==
    <<"_", "Z", "N", "1", "a", "1", "7", "b", "b", "b", "b", "b", "b", "b", "b", "b", "b", "b", "b", "b", "b", "b", "b", "b", "1", "7">> \o HASH \o <<"E">>

LocMain == [file |-> <<"s", "r", "c", "/", "m", "a", "i", "n", ".", "r", "s">>, line |-> 6, column |-> 0]
LocGone == [file |-> <<"s", "r", "c", "/", "g", "o", "n", "e", ".", "r", "s">>, line |-> 7, column |-> 5]
LocStd == [file |-> <<"/", "s", "t", "d", "/", "l", "i", "b", ".", "r", "s">>, line |-> 131, column |-> 0]
LocRustc == [file |-> <<"/", "r", "u", "s", "t", "c", "/", "a", "b", "c", "/", "l", "i", "b", ".", "r", "s">>, line |-> 114, column |-> 13]

StringArg(s) == [kind |-> "String", string |-> s]
ReasonArg(s) == [kind |-> "Reason", reason |-> s]
CalleeArg(f, l) == [kind |-> "Callee", callee |-> f, debug_loc |-> l]
CallerArg(f, l) == [kind |-> "Caller", caller |-> f, debug_loc |-> l]
OtherArg_(m) == [kind |-> "Other", map |-> m]
Entry(k, v) == [key |-> k, value |-> v]
StringValue(s) == [kind |-> "String", s |-> s]
NumberValue(n) == [kind |-> "Number", n |-> n]
BoolValue(b) == [kind |-> "Bool", b |-> b]
LocationValue(l) ==
    [kind |-> "Location", file |-> l.file, line |-> l.line, column |-> l.column]

\* - Line: '4' and Column: '18' in one record, no DebugLoc
OtherLineColumn ==
    OtherArg_(<<Entry(<<"L", "i", "n", "e">>, StringValue(<<"4">>)),
                Entry(<<"C", "o", "l", "u", "m", "n">>, StringValue(<<"1", "8">>))>>)

\* - Type: i64 with a DebugLoc, as in tests::parse_gvn
OtherLocated ==
    OtherArg_(<<Entry(<<"T", "y", "p", "e">>, StringValue(<<"i", "6", "4">>)),
                Entry(DEBUG_LOC, LocationValue(LocRustc)),
                Entry(<<"C", "o", "s", "t">>, NumberValue(15))>>)

\* a record whose DebugLoc does not decode, with a boolean and a null value
OtherUndecodable ==
    OtherArg_(<<Entry(<<"F", "l", "a", "g">>, BoolValue(TRUE)),
                Entry(DEBUG_LOC, StringValue(<<"x">>)),
                Entry(<<"E", "m", "p", "t", "y">>, [kind |-> "Null"])>>)

Args ==
    {StringArg(<<"a">>), StringArg(<<"b">>), StringArg(<<"x", " ">>),
     StringArg(<<" ", "y">>), StringArg(<<>>), ReasonArg(<<"r">>),
     CalleeArg(MANGLED_A, Some(LocRustc)), CalleeArg(<<"g">>, None),
     CallerArg(<<"f">>, Some(LocMain)), CallerArg(MANGLED_A, None),
     OtherLineColumn, OtherLocated, OtherUndecodable}

ArgLists == SeqsUpTo(Args, MaxArgs)

Roots == {None, Some(TOOLCHAIN_ROOT)}

OptionSets ==
    [external : BOOLEAN,
     source_dir : {SOURCE_DIR},
     filter_kind : {<<>>, <<"Bar", "Foo">>},
     rustc_source_root : Roots]

Files == {SOURCE_DIR \o <<"/">> \o LocMain.file}

MissedDocuments ==
    {[tag |-> "Missed", pass |-> "inline", name |-> n,
      function |-> MANGLED_A, debug_loc |-> l,
      args |-> <<StringArg(<<"x", " ">>), CalleeArg(<<"f">>, Some(LocMain)),
                 StringArg(<<" ", "y">>)>>,
      hotness |-> None] :
        n \in {"Foo", "NoDefinition"},
        l \in {None, Some(LocMain), Some(LocGone), Some(LocStd), Some(LocRustc)}}
    \cup
    {[tag |-> "Missed", pass |-> "regalloc", name |-> "LoopSpillReloadCopies",
      function |-> <<"f">>, debug_loc |-> l, args |-> <<>>,
      hotness |-> Some(2)] :
        l \in {None, Some(LocMain), Some(LocRustc)}}

\* Documents of the other tags and one that does not decode, with the fields
\* of a Missed document that would be accepted.
OtherDocuments ==
    {[tag |-> g, pass |-> "inline", name |-> "Inlined",
      function |-> MANGLED_A, debug_loc |-> Some(LocMain),
      args |-> <<StringArg(<<"a">>)>>, hotness |-> Some(2)] :
        g \in {"Passed", "Analysis", "Err"}}

Documents == MissedDocuments \cup OtherDocuments

Separator == <<":", ":">>

\* Trailing segments: a hash, one character less, one more, an upper-case
\* character, a single colon, a line feed after the hash.
Suffixes ==
    {Separator \o HASH,
     Separator \o Tail(HASH),
     Separator \o HASH \o <<"0">>,
     Separator \o <<"H">> \o Tail(HASH),
     <<":">> \o HASH,
     Separator \o HASH \o <<"\n">>}

Bases ==
    {<<>>, <<"a">>, <<"s", "t", "d", ":", ":", "r", "t">>, <<"a", "\n">>,
     MANGLED_A, MANGLED_A_B, <<"_", "Z", "N", "1", "a", "E">>}

DemangleInputs ==
    {b \o Concat(ss) : b \in Bases, ss \in SeqsUpTo(Suffixes, MaxSuffixes)}

NormalizeRoots ==
    {None, Some(TOOLCHAIN_ROOT), Some(<<"/", "f", "o", "o", "/">>), Some(<<"C", ":", "\\", "r", "u", "s", "t">>)}

Remainders == SeqsUpTo({"l", "/", "\\"}, MaxRemainderLen)

NormalizePaths ==
    {h \o r : h \in {RUSTC_PREFIX \o <<"a", "b", "c", "/">>,
                     RUSTC_PREFIX \o <<"/">>,
                     RUSTC_PREFIX \o <<"a", "b", "c">>,
                     <<"r", "u", "s", "t", "c", "/", "a", "b", "c", "/">>,
                     <<"/", "s", "r", "c", "/">>},
              r \in Remainders}

---------------------------------------------------------------------------
(* The specifications. *)

IdleOptions ==
    [external |-> TRUE, source_dir |-> SOURCE_DIR, filter_kind |-> <<>>,
     rustc_source_root |-> None]

IdleParse == fs = {} /\ docs = <<>> /\ remarks = <<>>
IdleMessage == arguments = <<>> /\ idx = 0 /\ buffer = <<>> /\ parts = <<>>
IdleDemangle == function = <<>> /\ demangled = <<>>
IdleNormalize == path = <<>> /\ normalized = <<>>
IdleLoad ==
    /\ dirState = "ok" /\ dirEntries = <<>> /\ callback = FALSE /\ files = <<>>
    /\ phase = <<>> /\ slots = <<>> /\ completed = <<>> /\ loads = <<>>
    /\ log = <<>> /\ output = None

(* parse_remarks over one stream *)

Init ==
    /\ pc = "parse"
    /\ options \in OptionSets
    /\ fs = Files
    /\ docs = <<>>
    /\ remarks = <<>>
    /\ IdleMessage /\ IdleDemangle /\ IdleNormalize /\ IdleLoad

\* One iteration of the loop: the deserializer yields a document.
ReadDocument ==
    /\ pc = "parse"
    /\ Len(docs) < MaxDocs
    /\ \E doc \in Documents :
           /\ docs' = Append(docs, doc)
           /\ remarks' = ParseDocument(options, fs, remarks, doc)
    /\ UNCHANGED <<pc, options, fs, arguments, idx, buffer, parts,
                   function, demangled, path, normalized,
                   loadVars>>

\* The stream is exhausted: parse_remarks returns `remarks`.
EndOfStream ==
    /\ pc = "parse"
    /\ pc' = "parsed"
    /\ UNCHANGED <<options, fs, docs, remarks, arguments, idx, buffer, parts,
                   function, demangled, path, normalized,
                   loadVars>>

Next == ReadDocument \/ EndOfStream

Spec == Init /\ [][Next]_vars

(* construct_message on one argument list *)

InitMessage ==
    /\ pc = "message"
    /\ options \in [external : {TRUE}, source_dir : {SOURCE_DIR},
                    filter_kind : {<<>>}, rustc_source_root : Roots]
    /\ arguments \in ArgLists
    /\ idx = 0
    /\ buffer = <<>>
    /\ parts = <<>>
    /\ IdleParse /\ IdleDemangle /\ IdleNormalize /\ IdleLoad

\* One iteration of `for arg in arguments`.
MessageArg ==
    /\ pc = "message"
    /\ idx < Len(arguments)
    /\ LET st == ArgStep(options, [buffer |-> buffer, parts |-> parts],
                         arguments[idx + 1])
       IN  buffer' = st.buffer /\ parts' = st.parts
    /\ idx' = idx + 1
    /\ UNCHANGED <<pc, options, fs, docs, remarks, arguments,
                   function, demangled, path, normalized,
                   loadVars>>

\* After the loop: the remaining buffer is pushed and `parts` returned.
MessageReturn ==
    /\ pc = "message"
    /\ idx = Len(arguments)
    /\ parts' = FinalParts([buffer |-> buffer, parts |-> parts])
    /\ pc' = "composed"
    /\ UNCHANGED <<options, fs, docs, remarks, arguments, idx, buffer,
                   function, demangled, path, normalized,
                   loadVars>>

NextMessage == MessageArg \/ MessageReturn

SpecMessage == InitMessage /\ [][NextMessage]_vars

(* demangle, applied to an identifier and then to its own result *)

InitDemangle ==
    /\ pc = "demangle"
    /\ options = IdleOptions
    /\ function \in DemangleInputs
    /\ demangled = <<>>
    /\ IdleParse /\ IdleMessage /\ IdleNormalize /\ IdleLoad

DemangleCall ==
    /\ pc = "demangle"
    /\ Len(demangled) < 2
    /\ demangled' = Append(demangled,
                        Demangle(IF demangled = <<>> THEN function
                                 ELSE demangled[Len(demangled)]))
    /\ UNCHANGED <<pc, options, fs, docs, remarks, arguments, idx, buffer,
                   parts, function, path, normalized,
                   loadVars>>

NextDemangle == DemangleCall

SpecDemangle == InitDemangle /\ [][NextDemangle]_vars

(* normalize_path on one path *)

InitNormalize ==
    /\ pc = "normalize"
    /\ options \in [external : {TRUE}, source_dir : {SOURCE_DIR},
                    filter_kind : {<<>>}, rustc_source_root : NormalizeRoots]
    /\ path \in NormalizePaths
    /\ normalized = <<>>
    /\ IdleParse /\ IdleMessage /\ IdleDemangle /\ IdleLoad

NormalizeCall ==
    /\ pc = "normalize"
    /\ normalized' = NormalizePath(options, path)
    /\ pc' = "normalized"
    /\ UNCHANGED <<options, fs, docs, remarks, arguments, idx, buffer, parts,
                   function, demangled, path,
                   loadVars>>

NextNormalize == NormalizeCall

SpecNormalize == InitNormalize /\ [][NextNormalize]_vars

---------------------------------------------------------------------------
(* Properties of parse_remarks, checked under Spec. *)

ExcludedNames == {options.filter_kind[i] : i \in 1..Len(options.filter_kind)}

\* The document read by the step, when the step reads one.
ReadsDocument == docs' # docs
DocumentRead == docs'[Len(docs')]

\* A Missed document with a DebugLoc whose Name is not excluded.
IsCandidate(doc) ==
    /\ doc.tag = "Missed"
    /\ doc.debug_loc.some
    /\ doc.name \notin ExcludedNames

\* The File of the document is absolute, or is not a regular file under source_dir.
IsExternalFile(doc) ==
    \/ (doc.debug_loc.val.file # <<>> /\ Head(doc.debug_loc.val.file) = "/")
    \/ PathJoin(options.source_dir, doc.debug_loc.val.file) \notin fs

\* The remarks are, in order, one for each of the documents `accepted`, with
\* the document's Pass, Name and Hotness.
OnePerDocument(accepted) ==
    /\ Len(remarks) = Len(accepted)
    /\ \A i \in 1..Len(accepted) :
           /\ i <= Len(remarks)
           /\ remarks[i].pass = accepted[i].pass
           /\ remarks[i].name = accepted[i].name
           /\ remarks[i].hotness = accepted[i].hotness

\* C1 as stated: under every load option, exactly one Remark is emitted for
\* each Missed document that has a DebugLoc and whose Name is not excluded,
\* and none more, with the document's Pass, Name and Hotness.
C1_AsStated == OnePerDocument(SelectSeq(docs, IsCandidate))

IsAccepted(doc) ==
    IsCandidate(doc) /\ (options.external \/ ~IsExternalFile(doc))

\* C1 as amended: exactly one Remark is emitted for each Missed document that
\* has a DebugLoc, whose Name is not excluded and, when external is false,
\* whose File is relative and names a regular file under source_dir, and none
\* more; its pass, name and hotness are the document's.
C1_OnePerAcceptedDocument == OnePerDocument(SelectSeq(docs, IsAccepted))

\* Reached: with external = false an absolute-path Missed document was read
\* and dropped, and a local one with Hotness 2 gave the only remark.
C1_Witness ==
    /\ pc = "parsed"
    /\ ~options.external
    /\ Len(docs) = 2
    /\ IsCandidate(docs[1]) /\ IsExternalFile(docs[1])
    /\ IsCandidate(docs[2]) /\ docs[2].hotness = Some(2)
    /\ Len(remarks) = 1
    /\ remarks[1].pass = "regalloc"

\* C2: a step that reads a document adds a Remark only if the document is
\* tagged Missed and has a DebugLoc; a Passed, Analysis or undecodable
\* document and a Missed document without DebugLoc leave the remarks as they are.
C2_OnlyLocatedMissed ==
    [][ReadsDocument =>
          /\ (DocumentRead.tag # "Missed" \/ ~DocumentRead.debug_loc.some)
                 => remarks' = remarks
          /\ remarks' # remarks
                 => (DocumentRead.tag = "Missed" /\ DocumentRead.debug_loc.some)]_vars

\* Reached: a Passed document with the fields of an acceptable remark and a
\* Missed document without DebugLoc were read and no remark was emitted.
C2_Witness ==
    /\ Len(docs) = 2
    /\ docs[1].tag = "Passed" /\ docs[1].debug_loc.some
    /\ docs[1].name \notin ExcludedNames
    /\ docs[2].tag = "Missed" /\ ~docs[2].debug_loc.some
    /\ remarks = <<>>

\* C3: with external = false a located Missed document whose File, as the
\* document writes it, begins with '/' or is not a regular file under
\* source_dir adds no Remark, whatever rustc_source_root is; with
\* external = true such a document adds one unless its Name is excluded.
C3_ExternalFilter ==
    [][(ReadsDocument /\ DocumentRead.tag = "Missed" /\ DocumentRead.debug_loc.some)
          => /\ (~options.external /\ IsExternalFile(DocumentRead))
                    => remarks' = remarks
             /\ (options.external /\ IsExternalFile(DocumentRead)
                     /\ DocumentRead.name \notin ExcludedNames)
                    => Len(remarks') = Len(remarks) + 1]_vars

\* Reached: with external = false and a toolchain root configured, a Missed
\* document under /rustc/ and one with a relative File that does not exist
\* were read, neither excluded by name, and no remark was emitted.
C3_Witness ==
    /\ ~options.external
    /\ options.rustc_source_root.some
    /\ Len(docs) = 2
    /\ IsCandidate(docs[1]) /\ docs[1].debug_loc.val = LocRustc
    /\ IsCandidate(docs[2]) /\ docs[2].debug_loc.val = LocGone
    /\ remarks = <<>>

\* C4: a step that reads a Missed document whose Name equals an entry of
\* filter_kind adds no Remark, whatever its other fields and external are.
C4_ExcludedName ==
    [][(ReadsDocument /\ DocumentRead.tag = "Missed"
            /\ DocumentRead.name \in ExcludedNames)
          => remarks' = remarks]_vars

\* Reached: with external = true a located Missed document named by the
\* second entry of filter_kind was read and no remark was emitted.
C4_Witness ==
    /\ options.external
    /\ Len(options.filter_kind) = 2
    /\ Len(docs) = 1
    /\ docs[1].tag = "Missed" /\ docs[1].debug_loc.some
    /\ docs[1].name = options.filter_kind[2]
    /\ remarks = <<>>

---------------------------------------------------------------------------
(* Properties of construct_message, checked under SpecMessage. *)

\* The argument consumed by the step, when the step is an iteration of the loop.
ConsumesArg == idx' = idx + 1
ArgConsumed == arguments[idx']

IsFunctionArg(arg) == arg.kind \in {"Callee", "Caller"}
FunctionName(arg) == IF arg.kind = "Callee" THEN arg.callee ELSE arg.caller

\* The location an Other argument carries, if it carries a decodable one.
OtherLocation(arg) ==
    LET located == {i \in 1..Len(arg.map) :
                        arg.map[i].key = DEBUG_LOC /\ arg.map[i].value.kind = "Location"}
    IN  IF located = {} THEN None
        ELSE LET v == arg.map[CHOOSE i \in located : TRUE].value
             IN  Some([file |-> v.file, line |-> v.line, column |-> v.column])

\* The scalar values of an Other argument, DebugLoc left out, written one after
\* the other in ascending order of their keys.
OtherText(arg) ==
    LET entries == {arg.map[i] : i \in 1..Len(arg.map)} \ {e \in {arg.map[i] : i \in 1..Len(arg.map)} : e.key = DEBUG_LOC}
        nth(i) == CHOOSE e \in entries :
                      Cardinality({f \in entries : StrLess(f.key, e.key)}) = i - 1
        text(v) == IF ValueText(v).some THEN ValueText(v).val ELSE <<>>
    IN  Concat([i \in 1..Cardinality(entries) |-> text(nth(i).value)])

\* The argument ends a run of plain text: it is pushed as an annotated part.
Flushes(arg) ==
    \/ IsFunctionArg(arg) /\ arg.debug_loc.some
    \/ arg.kind = "Other" /\ OtherLocation(arg).some

\* The text an argument that does not flush contributes.
PlainText(arg) ==
    CASE arg.kind = "String" -> arg.string
      [] arg.kind = "Reason" -> arg.reason
      [] IsFunctionArg(arg) -> Demangle(FunctionName(arg))
      [] arg.kind = "Other" -> OtherText(arg)

\* The parts of a message with the annotated ones reduced to a marker.
Shape(ps) ==
    [i \in 1..Len(ps) |-> IF ps[i].kind = "String" THEN ps[i]
                          ELSE [kind |-> "AnnotatedString"]]

\* The shape of the message of args, `run` being the texts of the run of
\* arguments that is open; a closed run gives a part when its text is not
\* empty and, with emptyToo, also when it is.
RECURSIVE RunsShape(_, _, _)
RunsShape(args, run, emptyToo) ==
    LET closed == IF run # <<>> /\ (emptyToo \/ Concat(run) # <<>>)
                  THEN <<PlainPart(Concat(run))>> ELSE <<>>
    IN  IF args = <<>> THEN closed
        ELSE IF Flushes(Head(args))
        THEN closed \o <<[kind |-> "AnnotatedString"]>>
                 \o RunsShape(Tail(args), <<>>, emptyToo)
        ELSE RunsShape(Tail(args), Append(run, PlainText(Head(args))), emptyToo)

NoAdjacentPlain(ps) ==
    \A i \in 1..(Len(ps) - 1) : ~(ps[i].kind = "String" /\ ps[i + 1].kind = "String")

ScenarioA == <<StringArg(<<"a">>), StringArg(<<"b">>)>>

\* C5 as stated: the message has no two adjacent PlainText parts, and every
\* maximal run of arguments that cause no flush gives exactly one PlainText
\* part, the texts of the run written one after the other.
C5_AsStated ==
    pc = "composed" =>
        /\ NoAdjacentPlain(parts)
        /\ Shape(parts) = RunsShape(arguments, <<>>, TRUE)

\* C5 as amended: the message has no two adjacent PlainText parts, and every
\* maximal run of arguments that cause no flush gives exactly one PlainText
\* part, the texts of the run written one after the other with no separator,
\* when that text is not empty, and no part when it is empty.
C5_RunsMerged ==
    pc = "composed" =>
        /\ NoAdjacentPlain(parts)
        /\ Shape(parts) = RunsShape(arguments, <<>>, FALSE)
        /\ arguments = ScenarioA => parts = <<PlainPart(<<"a", "b">>)>>

\* Reached: a String, a Reason and an unlocated Caller were merged into one
\* PlainText part.
C5_Witness ==
    /\ pc = "composed"
    /\ Len(arguments) = 3
    /\ arguments[1].kind = "String" /\ arguments[1].string # <<>>
    /\ arguments[2].kind = "Reason"
    /\ arguments[3].kind = "Caller" /\ ~arguments[3].debug_loc.some
    /\ Len(parts) = 1
    /\ parts[1].kind = "String"

\* The part pushed before an annotated one: the buffered text, if there is any.
Flushed == IF buffer # <<>> THEN <<PlainPart(buffer)>> ELSE <<>>

ScenarioB ==
    <<StringArg(<<"x", " ">>), CalleeArg(MANGLED_A, Some(LocRustc)),
      StringArg(<<" ", "y">>)>>

\* C6: an iteration on a Callee or Caller with a location pushes the buffered
\* text (if not empty) as a PlainText part, then one AnnotatedText of the
\* demangled name and the normalized location, and leaves the buffer empty;
\* on one without a location it appends the demangled name to the buffer and
\* pushes no part.  [String("x "), Callee(F, L), String(" y")] gives
\* [PlainText("x "), AnnotatedText(demangle(F), L), PlainText(" y")].
C6_FunctionArguments ==
    /\ [][(ConsumesArg /\ IsFunctionArg(ArgConsumed)) =>
            IF ArgConsumed.debug_loc.some
            THEN /\ parts' = parts \o Flushed
                         \o <<AnnotatedPart(Demangle(FunctionName(ArgConsumed)),
                                [file |-> NormalizePath(options, ArgConsumed.debug_loc.val.file),
                                 line |-> ArgConsumed.debug_loc.val.line,
                                 column |-> ArgConsumed.debug_loc.val.column])>>
                 /\ buffer' = <<>>
            ELSE /\ parts' = parts
                 /\ buffer' = buffer \o Demangle(FunctionName(ArgConsumed))]_vars
    /\ []((pc = "composed" /\ arguments = ScenarioB) =>
            parts = <<PlainPart(<<"x", " ">>),
                      AnnotatedPart(Demangle(MANGLED_A),
                          [file |-> NormalizePath(options, LocRustc.file),
                           line |-> LocRustc.line, column |-> LocRustc.column]),
                      PlainPart(<<" ", "y">>)>>)

\* Reached: a located Callee with a mangled name, read with text in the
\* buffer and a toolchain root configured, gave a PlainText and an
\* AnnotatedText part and an empty buffer.
C6_Witness ==
    /\ pc = "message"
    /\ options.rustc_source_root.some
    /\ idx = 2
    /\ arguments[1].kind = "Caller" /\ ~arguments[1].debug_loc.some
    /\ arguments[2].kind = "Callee" /\ arguments[2].debug_loc.some
    /\ Len(parts) = 2
    /\ parts[1] = PlainPart(<<"a">>)
    /\ parts[2].kind = "AnnotatedString" /\ parts[2].message = <<"a">>
    /\ buffer = <<>>

\* C7: an iteration on an Other argument contributes the text of its scalar
\* values, DebugLoc left out, in ascending order of the keys, without the keys
\* and with nothing between them.  With a decodable location the buffered text
\* is pushed first and the text becomes an AnnotatedText; otherwise the text is
\* appended to the buffer and no part is pushed.  {Line: "4", Column: "18"}
\* without a location contributes "184".
C7_OtherArguments ==
    [][(ConsumesArg /\ ArgConsumed.kind = "Other") =>
          /\ IF OtherLocation(ArgConsumed).some
             THEN /\ parts' = parts \o Flushed
                          \o <<AnnotatedPart(OtherText(ArgConsumed),
                                 [file |-> NormalizePath(options, OtherLocation(ArgConsumed).val.file),
                                  line |-> OtherLocation(ArgConsumed).val.line,
                                  column |-> OtherLocation(ArgConsumed).val.column])>>
                  /\ buffer' = <<>>
             ELSE /\ parts' = parts
                  /\ buffer' = buffer \o OtherText(ArgConsumed)
          /\ ArgConsumed = OtherLineColumn => buffer' = buffer \o <<"1", "8", "4">>]_vars

\* Reached: {Line: "4", Column: "18"} put "184" in the buffer, and a located
\* Other argument listing Type before Cost then flushed it and was annotated
\* with its values in key order.
C7_Witness ==
    /\ pc = "message"
    /\ idx = 2
    /\ arguments[1] = OtherLineColumn
    /\ arguments[2] = OtherLocated
    /\ parts = <<PlainPart(<<"1", "8", "4">>),
                 AnnotatedPart(<<"1", "5", "i", "6", "4">>,
                               ParseDebugLoc(options, LocRustc))>>
    /\ buffer = <<>>

---------------------------------------------------------------------------
(* Properties of demangle, checked under SpecDemangle. *)

\* s ends with "::" and then exactly 17 characters of [a-z0-9].
EndsWithHash(s) ==
    /\ Len(s) >= 19
    /\ s[Len(s) - 18] = ":"
    /\ s[Len(s) - 17] = ":"
    /\ \A k \in (Len(s) - 16)..Len(s) : s[k] \in LowerAlnum

WithoutHash(s) == SubSeq(s, 1, Len(s) - 19)

\* C8 as stated: demangle(demangle(x)) = demangle(x) for every identifier x.
C8_AsStated == Len(demangled) = 2 => demangled[2] = demangled[1]

\* C8 as amended: demangle(demangle(x)) = demangle(x) for every identifier x
\* whose result demangle(x) the base transform leaves as it is and which does
\* not end in "::" and 17 characters of [a-z0-9]; a result that again ends so
\* loses these 19 characters in the second application.
C8_IdempotentOffHash ==
    (Len(demangled) = 2 /\ RustcDemangle(demangled[1]) = demangled[1]) =>
        IF EndsWithHash(demangled[1])
        THEN demangled[2] = WithoutHash(demangled[1])
        ELSE demangled[2] = demangled[1]

\* Reached: a legacy-mangled name lost its hash in the first application and
\* the second application returned the same string.
C8_Witness ==
    /\ Len(demangled) = 2
    /\ function = MANGLED_A
    /\ demangled[1] = <<"a">>
    /\ demangled[2] = <<"a">>

\* C9: demangle returns the base-demangled string without its last 19
\* characters if that string ends with "::" and exactly 17 characters of
\* [a-z0-9], and the base-demangled string itself in every other case.
C9_StripsHash ==
    Len(demangled) >= 1 =>
        demangled[1] = IF EndsWithHash(RustcDemangle(function))
                       THEN WithoutHash(RustcDemangle(function))
                       ELSE RustcDemangle(function)

\* Reached: the mangled a::bbbbbbbbbbbbbbbbb::h9096f6f84fb08eb2 lost exactly
\* the 19 characters of its hash segment.
C9_Witness ==
    /\ Len(demangled) = 1
    /\ function = MANGLED_A_B
    /\ demangled[1] = SubSeq(RustcDemangle(MANGLED_A_B), 1, 20)
    /\ Len(RustcDemangle(MANGLED_A_B)) = 39

---------------------------------------------------------------------------
(* Properties of normalize_path, checked under SpecNormalize. *)

\* path is "/rustc/" + identifier + "/" + remainder
HasToolchainShape(p) ==
    /\ StartsWith(p, RUSTC_PREFIX)
    /\ \E i \in (Len(RUSTC_PREFIX) + 1)..Len(p) : p[i] = "/"

\* the remainder of such a path: what follows the first '/' after the prefix
Remainder(p) ==
    LET i == CHOOSE i \in (Len(RUSTC_PREFIX) + 1)..Len(p) :
                 /\ p[i] = "/"
                 /\ \A j \in (Len(RUSTC_PREFIX) + 1)..(i - 1) : p[j] # "/"
    IN  SubSeq(p, i + 1, Len(p))

\* root and remainder with one separator between them
Rooted(root, remainder) ==
    IF root # <<>> /\ root[Len(root)] = "/" THEN root \o remainder
    ELSE root \o <<"/">> \o remainder

\* C10: with a root configured and a path "/rustc/" + identifier + "/" +
\* remainder the result is the root joined with the remainder, for every
\* remainder (an empty one and one that begins with '/' too), with every
\* backslash turned into '/'; in every other case the path is returned as it is.
C10_AsStated ==
    pc = "normalized" =>
        IF options.rustc_source_root.some /\ HasToolchainShape(path)
        THEN normalized = Replace(Rooted(options.rustc_source_root.val,
                                         Remainder(path)), "\\", "/")
        ELSE normalized = path

---------------------------------------------------------------------------
(* load_remarks_from_file and load_remarks_from_dir *)

(* A directory entry is [name, is_file, opens, stat, len, docs]: its file   *)
(* name, whether its file type is a regular file, whether File::open and    *)
(* file.metadata() succeed on it, its length in bytes and the documents its *)
(* content decodes to.  A Result is [ok |-> TRUE, val] or                   *)
(* [ok |-> FALSE, error].                                                   *)

EXPECTED_EXTENSION == <<".", "o", "p", "t", ".", "y", "a", "m", "l">>

Ok(v) == [ok |-> TRUE, val |-> v]
Err(e) == [ok |-> FALSE, error |-> e]

\* str::ends_with
EndsWith(s, suffix) ==
    /\ Len(s) >= Len(suffix)
    /\ SubSeq(s, Len(s) - Len(suffix) + 1, Len(s)) = suffix

\* The filter_map closure over read_dir: regular files named *.opt.yaml.
IsRemarkFile(entry) ==
    /\ entry.is_file
    /\ EndsWith(entry.name, EXPECTED_EXTENSION)

\* parse_remarks on a whole stream: the loop over its documents.
RECURSIVE ParseLoop(_, _, _, _)
ParseLoop(opts, fsys, rs, ds) ==
    IF ds = <<>> THEN rs
    ELSE ParseLoop(opts, fsys, ParseDocument(opts, fsys, rs, Head(ds)), Tail(ds))

ParseRemarks(opts, fsys, ds) == ParseLoop(opts, fsys, <<>>, ds)

LoadRemarksFromFile(opts, fsys, file) ==
    IF ~file.opens THEN Err("Cannot open remark file")
    ELSE IF ~file.stat THEN Err("metadata")
    ELSE IF file.len = 0 THEN Ok(<<>>)
    ELSE Ok(ParseRemarks(opts, fsys, file.docs))

\* Faulty variant of Collected: the results in the order the loads finished.
CollectedByCompletion(results, order) ==
    [k \in 1..Len(order) |-> results[order[k]].val]

\* into_par_iter().map(..).collect() into a Vec: the closures' results by the
\* position of their file in `files`, whatever order they finished in.
Collected(results, order) ==
    [i \in 1..Len(results) |-> results[i].val]

\* Faulty variant of FlattenOk: the first failed file ends the list.
RECURSIVE FlattenUntilError(_)
FlattenUntilError(collected) ==
    IF collected = <<>> THEN <<>>
    ELSE IF Head(collected).ok
    THEN Head(collected).val \o FlattenUntilError(Tail(collected))
    ELSE <<>>

\* filter_map(Ok(remarks) => Some(remarks), Err => None).flatten().collect()
RECURSIVE FlattenOk(_)
FlattenOk(collected) ==
    IF collected = <<>> THEN <<>>
    ELSE IF Head(collected).ok
    THEN Head(collected).val \o FlattenOk(Tail(collected))
    ELSE FlattenOk(Tail(collected))

\* if let Some(callback) = callback { callback.start(files.len() as u64) }
CallStart(cb, lg, total) ==
    IF cb THEN Append(lg, [call |-> "start", total |-> total]) ELSE lg

\* Faulty variant of CallAdvance: advance is called for a loaded file only.
CallAdvanceIfOk(cb, lg, result) ==
    IF cb /\ result.ok THEN Append(lg, [call |-> "advance"]) ELSE lg

\* if let Some(callback) = callback { callback.advance() }, after the load
\* of a file returned `result`
CallAdvance(cb, lg, result) ==
    IF cb THEN Append(lg, [call |-> "advance"]) ELSE lg

\* if let Some(callback) = callback { callback.finish() }
CallFinish(cb, lg) ==
    IF cb THEN Append(lg, [call |-> "finish"]) ELSE lg

(* The inputs of load_remarks_from_dir. *)

LoadOptions ==
    [external |-> FALSE, source_dir |-> SOURCE_DIR,
     filter_kind |-> <<"Bar", "Foo">>,
     rustc_source_root |-> Some(TOOLCHAIN_ROOT)]

InlineDocument(name, location) ==
    [tag |-> "Missed", pass |-> "inline", name |-> name,
     function |-> MANGLED_A, debug_loc |-> Some(location),
     args |-> <<StringArg(<<"a">>)>>, hotness |-> None]

RegallocDocument ==
    [tag |-> "Missed", pass |-> "regalloc", name |-> "LoopSpillReloadCopies",
     function |-> <<"f">>, debug_loc |-> Some(LocMain), args |-> <<>>,
     hotness |-> Some(2)]

UndecodableDocument ==
    [tag |-> "Err", pass |-> "inline", name |-> "NoDefinition",
     function |-> <<"f">>, debug_loc |-> Some(LocMain), args |-> <<>>,
     hotness |-> None]

\* an accepted document, one excluded by name, one outside source_dir
StreamA ==
    <<InlineDocument("NoDefinition", LocMain), InlineDocument("Foo", LocMain),
      InlineDocument("NoDefinition", LocStd)>>

\* a document that fails to decode, then two accepted ones
StreamB ==
    <<UndecodableDocument, RegallocDocument,
      InlineDocument("Inlined", LocMain)>>

RemarkFile(name, stream) ==
    [name |-> name, is_file |-> TRUE, opens |-> TRUE, stat |-> TRUE,
     len |-> 64, docs |-> stream]

EntryKinds ==
    {RemarkFile(<<"a", ".", "o", "p", "t", ".", "y", "a", "m", "l">>, StreamA),
     RemarkFile(<<"b", ".", "o", "p", "t", ".", "y", "a", "m", "l">>, StreamB),
     [RemarkFile(<<"c", ".", "o", "p", "t", ".", "y", "a", "m", "l">>, StreamB) EXCEPT !.opens = FALSE],
     [RemarkFile(<<"s", ".", "o", "p", "t", ".", "y", "a", "m", "l">>, StreamA) EXCEPT !.stat = FALSE],
     [RemarkFile(<<"e", ".", "o", "p", "t", ".", "y", "a", "m", "l">>, <<>>) EXCEPT !.len = 0],
     [RemarkFile(<<"d", ".", "o", "p", "t", ".", "y", "a", "m", "l">>, <<>>) EXCEPT !.is_file = FALSE],
     RemarkFile(<<"a", ".", "y", "a", "m", "l">>, StreamB)}

(* load_remarks_from_dir on one directory, its files loaded in parallel *)

InitLoad ==
    /\ pc = "enumerate"
    /\ options = LoadOptions
    /\ fs = Files
    /\ docs = <<>> /\ remarks = <<>>
    /\ dirState \in {"ok", "missing", "unreadable"}
    /\ dirEntries \in SeqsUpTo(EntryKinds, MaxEntries)
    \* read_dir yields every entry of the directory once: names are distinct.
    /\ \A i, j \in 1..Len(dirEntries) :
           dirEntries[i].name = dirEntries[j].name => i = j
    /\ dirState # "ok" => dirEntries = <<>>
    /\ callback \in BOOLEAN
    /\ files = <<>> /\ phase = <<>> /\ slots = <<>> /\ completed = <<>>
    /\ loads = <<>> /\ log = <<>> /\ output = None
    /\ IdleMessage /\ IdleDemangle /\ IdleNormalize

\* canonicalize or read_dir fails: the error is returned by `?`.
DirectoryError ==
    /\ pc = "enumerate"
    /\ dirState # "ok"
    /\ output' = Some(Err(IF dirState = "missing"
                          THEN "Cannot find remark directory"
                          ELSE "Cannot read remark directory"))
    /\ pc' = "returned"
    /\ UNCHANGED <<options, fs, docs, remarks, arguments, idx, buffer, parts,
                   function, demangled, path, normalized,
                   dirState, dirEntries, callback, files, phase, slots,
                   completed, loads, log>>

\* The directory is read and `files` collected.
Enumerate ==
    /\ pc = "enumerate"
    /\ dirState = "ok"
    /\ files' = SelectSeq(dirEntries, IsRemarkFile)
    /\ phase' = [i \in 1..Len(files') |-> "pending"]
    /\ slots' = [i \in 1..Len(files') |-> None]
    /\ loads' = [i \in 1..Len(files') |-> 0]
    /\ pc' = "start"
    /\ UNCHANGED <<options, fs, docs, remarks, arguments, idx, buffer, parts,
                   function, demangled, path, normalized,
                   dirState, dirEntries, callback, completed, log, output>>

\* callback.start(files.len())
Start ==
    /\ pc = "start"
    /\ log' = CallStart(callback, log, Len(files))
    /\ pc' = "workers"
    /\ UNCHANGED <<options, fs, docs, remarks, arguments, idx, buffer, parts,
                   function, demangled, path, normalized,
                   dirState, dirEntries, callback, files, phase, slots,
                   completed, loads, output>>

\* A worker runs load_remarks_from_file on a file no worker has taken yet.
LoadFile(i) ==
    /\ pc = "workers"
    /\ phase[i] = "pending"
    /\ slots' = [slots EXCEPT ![i] = Some(LoadRemarksFromFile(options, fs, files[i]))]
    /\ loads' = [loads EXCEPT ![i] = @ + 1]
    /\ completed' = Append(completed, i)
    /\ phase' = [phase EXCEPT ![i] = "loaded"]
    /\ UNCHANGED <<pc, options, fs, docs, remarks, arguments, idx, buffer, parts,
                   function, demangled, path, normalized,
                   dirState, dirEntries, callback, files, log, output>>

\* The worker calls callback.advance() and its closure returns (file, remarks).
Advance(i) ==
    /\ pc = "workers"
    /\ phase[i] = "loaded"
    /\ log' = CallAdvance(callback, log, slots[i].val)
    /\ phase' = [phase EXCEPT ![i] = "advanced"]
    /\ UNCHANGED <<pc, options, fs, docs, remarks, arguments, idx, buffer, parts,
                   function, demangled, path, normalized,
                   dirState, dirEntries, callback, files, slots, completed,
                   loads, output>>

\* Every closure has returned: the results are collected and flattened.
Collect ==
    /\ pc = "workers"
    /\ \A i \in 1..Len(files) : phase[i] = "advanced"
    /\ remarks' = FlattenOk(Collected(slots, completed))
    /\ pc' = "finish"
    /\ UNCHANGED <<options, fs, docs, arguments, idx, buffer, parts,
                   function, demangled, path, normalized, loadVars>>

\* callback.finish() and Ok(remarks)
Finish ==
    /\ pc = "finish"
    /\ log' = CallFinish(callback, log)
    /\ output' = Some(Ok(remarks))
    /\ pc' = "returned"
    /\ UNCHANGED <<options, fs, docs, remarks, arguments, idx, buffer, parts,
                   function, demangled, path, normalized,
                   dirState, dirEntries, callback, files, phase, slots,
                   completed, loads>>

NextLoad ==
    \/ DirectoryError
    \/ Enumerate
    \/ Start
    \/ \E i \in 1..Len(files) : LoadFile(i)
    \/ \E i \in 1..Len(files) : Advance(i)
    \/ Collect
    \/ Finish

SpecLoad == InitLoad /\ [][NextLoad]_vars

---------------------------------------------------------------------------
(* Properties of load_remarks_from_dir, checked under SpecLoad. *)

Returned == pc = "returned"
ReturnedOk == pc = "returned" /\ output.val.ok

\* The file can be opened and read and is not empty.
HasContent(file) == file.opens /\ file.stat /\ file.len # 0

\* The remarks of the accepted documents of a file, in document order.
FileRemarks(file) ==
    IF HasContent(file) THEN ParseRemarks(options, fs, file.docs) ELSE <<>>

\* C11: the returned list is, file after file in the order of the enumerated
\* file list, the accepted remarks of each file in document order, whatever
\* order the parallel loads finished in.
C11_FileListOrder ==
    ReturnedOk =>
        /\ files = SelectSeq(dirEntries, IsRemarkFile)
        /\ output.val.val = Concat([i \in 1..Len(files) |-> FileRemarks(files[i])])

\* Reached: the load of the second file finished before the load of the
\* first, both files gave remarks, and the first file's remark comes first.
C11_Witness ==
    /\ ReturnedOk
    /\ Len(files) = 2
    /\ completed = <<2, 1>>
    /\ files[1].docs = StreamA /\ HasContent(files[1])
    /\ files[2].docs = StreamB /\ HasContent(files[2])
    /\ Len(output.val.val) = 3
    /\ output.val.val[1].name = "NoDefinition"
    /\ output.val.val[2].pass = "regalloc"

\* The number of documents of a file that parse_remarks accepts.
AcceptedCount(file) ==
    IF HasContent(file)
    THEN Cardinality({j \in 1..Len(file.docs) : IsAccepted(file.docs[j])})
    ELSE 0

RECURSIVE AcceptedTotal(_)
AcceptedTotal(fls) ==
    IF fls = <<>> THEN 0 ELSE AcceptedCount(Head(fls)) + AcceptedTotal(Tail(fls))

\* C12: the call returns an error exactly when the directory cannot be found
\* or read; otherwise it returns Ok with one remark for every accepted
\* document of every file that can be opened and read, those after a document
\* that failed to decode included; a file that cannot be opened or read and an
\* empty file contribute none.
C12_OnlyDirectoryFails ==
    Returned =>
        /\ output.val.ok <=> dirState = "ok"
        /\ output.val.ok => Len(output.val.val) = AcceptedTotal(files)

\* Reached: a file that cannot be opened came before a file whose first
\* document fails to decode, and the call returned Ok with the two remarks
\* of the documents that follow it.
C12_Witness ==
    /\ ReturnedOk
    /\ Len(files) = 2
    /\ ~files[1].opens /\ ~slots[1].val.ok
    /\ files[2].docs = StreamB /\ HasContent(files[2])
    /\ files[2].docs[1].tag = "Err"
    /\ Len(output.val.val) = 2

CallCount(c) == Cardinality({k \in 1..Len(log) : log[k].call = c})

SelectedCount ==
    Cardinality({k \in 1..Len(dirEntries) :
                    /\ dirEntries[k].is_file
                    /\ EndsWith(dirEntries[k].name, EXPECTED_EXTENSION)})

\* The calls on the callback are start, then advances, then finish.
CallsInOrder ==
    \A k \in 1..Len(log) :
        /\ log[k].call = "start" <=> k = 1
        /\ log[k].call = "finish" => k = Len(log)

\* C13: with a callback, start(total) is called once, with the number of
\* selected files, before any file is loaded; advance() is called once per
\* file, after the load of that file returned, whether it failed or not, after
\* start and before finish; finish() is called once, after every file was
\* loaded and advanced; no file is loaded twice.
C13_CallbackProtocol ==
    /\ [](callback =>
            /\ CallsInOrder
            /\ log # <<>> => log[1].total = SelectedCount
            /\ \A i \in 1..Len(loads) :
                   /\ loads[i] <= 1
                   /\ loads[i] = 1 => CallCount("start") = 1
            /\ CallCount("advance")
                   = Cardinality({i \in 1..Len(phase) : phase[i] = "advanced"})
            /\ CallCount("finish") = 1 =>
                   /\ CallCount("advance") = SelectedCount
                   /\ \A i \in 1..Len(loads) : loads[i] = 1
            /\ ReturnedOk =>
                   /\ CallCount("start") = 1
                   /\ CallCount("advance") = SelectedCount
                   /\ CallCount("finish") = 1)
    /\ [][(callback /\ Len(log') > Len(log) /\ log'[Len(log')].call = "advance") =>
            \E i \in 1..Len(files) :
                /\ loads[i] = 1 /\ slots[i].some
                /\ phase[i] = "loaded" /\ phase'[i] = "advanced"]_vars

\* Reached: with a callback, of two selected files the second was loaded
\* first and the first could not be opened; start(2), two advances and finish
\* were called.
C13_Witness ==
    /\ ReturnedOk
    /\ callback
    /\ Len(files) = 2
    /\ completed = <<2, 1>>
    /\ ~slots[1].val.ok
    /\ log = <<[call |-> "start", total |-> 2], [call |-> "advance"],
               [call |-> "advance"], [call |-> "finish"]>>

===========================================================================
